---- MODULE Spec2Model ----
(***************************************************************************)
(* rDock scoring-expression tokenizer: RbtStringTokenIter over an istream   *)
(* and a shared RbtContext (src/lib/RbtStringTokenIter.cxx).                *)
(*                                                                          *)
(* Strings are sequences of one-character strings, so that find() and       *)
(* strtod() are computed character by character.                            *)
(***************************************************************************)
EXTENDS Integers, Sequences, FiniteSets, TLC

VARIABLES
  filep,     \* the istream: [buf, pos, eofbit, failbit]
  strtok,    \* RbtStringTokenIter::strtok, the buffered raw word
  current,   \* RbtStringTokenIter::current, the token stored by Current()
  contextp,  \* the RbtContext: [vm: name -> cell id, cells: Seq of RbtVble]
  seen,      \* history: the word every Current() call passed to translate
  out,       \* history: the result of every Current() call, in call order
  log,       \* history: the Assign calls translate() made, in call order
  calls,     \* history: the calls made so far: Current "C", Next "N",
             \*          external Assign "X" (with its name and value)
  budget,    \* the number of Current() and Next() calls the consumer makes
  dup        \* a second RbtStringTokenIter made by copying the first:
             \*   [live, strtok, current]; its filep and contextp are copies
             \*   of the first one's pointers, the same istream and context

\* RbtBaseBiMolTransform and the RbtWorkSpace it observes
VARIABLES
  wsModels,       \* the model list of the workspace (RbtModelPtr values)
  m_spReceptor,   \* the cached receptor
  m_spLigand,     \* the cached ligand
  m_solventList,  \* the cached solvent list
  hooks,          \* the Setup hooks the latest Update() called, in call order
  subject,        \* the subject the latest Update() was called with
  updates         \* the number of Update() calls so far

\* RbtCharmmDataSource
VARIABLES
  m_atomTypes,          \* nAtomType -> strAtomType
  m_atomicNumber,       \* strAtomType -> atomic number
  m_hybridState,        \* strAtomType -> hybridisation state
  m_implicitHydrogens,  \* strAtomType -> number of implicit hydrogens
  m_formalCharge,       \* strAtomType -> formal charge
  ret                   \* the latest lookup: [fn, key, thrown, value]

iterVars == <<filep, strtok, current, contextp, seen, out, log, calls, budget, dup>>
transformVars ==
  <<wsModels, m_spReceptor, m_spLigand, m_solventList, hooks, subject, updates>>
tables ==
  <<m_atomTypes, m_atomicNumber, m_hybridState, m_implicitHydrogens, m_formalCharge>>
dataVars == <<tables, ret>>

vars == <<iterVars, transformVars, dataVars>>

-----------------------------------------------------------------------------
(* Bounds *)

\* words in a generated stream
MaxWords == 2
\* length of a generated word over GenAlphabet
MaxWordLen == 3
\* Current() and Next() calls on a stream of several words
MaxCalls == 5
\* Current() and Next() calls on a stream of a single generated word
MaxClassify == 2
\* Assign calls of the external parameter source in one behaviour
MaxExt == 1
\* Current() and Next() calls on an iterator that is copied
MaxCopyCalls == 2
\* Current() and Next() calls on the copy of an iterator
MaxDupCalls == 2
\* RbtModel objects there are
NumModelObjects == 2
\* models the workspace holds
MaxModels == 3
\* Update() calls in a run of the transform
MaxUpdates == 3
\* entries in the type list of masses.rtf
MaxTypes == 2
\* the largest atom type number looked up
MaxAtomType == 3

-----------------------------------------------------------------------------
(* Characters and strings *)

Whitespace == {" ", "\n"}

Digits == {"0", "1", "2", "3", "4", "5", "6", "7", "8", "9"}

DigitVal(c) ==
  CASE c = "0" -> 0 [] c = "1" -> 1 [] c = "2" -> 2 [] c = "3" -> 3
    [] c = "4" -> 4 [] c = "5" -> 5 [] c = "6" -> 6 [] c = "7" -> 7
    [] c = "8" -> 8 [] c = "9" -> 9 [] OTHER -> 0

\* tolower() on the letters strtod compares without case
Lower(c) ==
  CASE c = "I" -> "i" [] c = "N" -> "n" [] c = "F" -> "f" [] c = "A" -> "a"
    [] c = "T" -> "t" [] c = "Y" -> "y" [] c = "E" -> "e" [] c = "X" -> "x"
    [] OTHER -> c

LowerStr(s) == [i \in 1..Len(s) |-> Lower(s[i])]

\* pat occurs in s starting at index i
MatchAt(s, pat, i) ==
  /\ i >= 1
  /\ i + Len(pat) - 1 <= Len(s)
  /\ SubSeq(s, i, i + Len(pat) - 1) = pat

\* string::npos != s.find(pat)
Find(s, pat) == \E i \in 1..Len(s) : MatchAt(s, pat, i)

-----------------------------------------------------------------------------
(* RbtDouble values: a finite double is the normalised decimal m * 10^e     *)
(* (m not divisible by 10, zero is m = 0, e = 0); inf and nan are symbolic. *)
(* -0.0 compares equal to 0.0 and is the same value here.                   *)

RECURSIVE Normalise(_, _)
Normalise(m, e) ==
  IF m = 0 THEN [k |-> "num", m |-> 0, e |-> 0]
  ELSE IF m % 10 = 0 THEN Normalise(m \div 10, e + 1)
  ELSE [k |-> "num", m |-> m, e |-> e]

Num(m, e) == Normalise(m, e)
Zero == Num(0, 0)
Inf(neg) == [k |-> "inf", m |-> IF neg THEN -1 ELSE 1, e |-> 0]
NaN == [k |-> "nan", m |-> 0, e |-> 0]

IsFinite(v) == v.k = "num"

-----------------------------------------------------------------------------
(* strtod(s.c_str(), &error): the C library conversion in the "C" locale.   *)
(* The result is [val, end, erange]: the value, the number of characters    *)
(* consumed (error - s.c_str()) and whether errno is set to ERANGE.         *)

HexDigits == Digits \cup {"a", "b", "c", "d", "e", "f", "A", "B", "C", "D", "E", "F"}

HexVal(c) ==
  CASE c \in {"a", "A"} -> 10 [] c \in {"b", "B"} -> 11 [] c \in {"c", "C"} -> 12
    [] c \in {"d", "D"} -> 13 [] c \in {"e", "E"} -> 14 [] c \in {"f", "F"} -> 15
    [] OTHER -> DigitVal(c)

\* first index j >= i with s[j] not in set (Len(s) + 1 when there is none)
RECURSIVE ScanWhile(_, _, _)
ScanWhile(s, i, set) ==
  IF i <= Len(s) /\ s[i] \in set THEN ScanWhile(s, i + 1, set) ELSE i

\* the number written by the digits s[i], ..., s[j - 1] in the given base
RECURSIVE DigitsVal(_, _, _, _)
DigitsVal(s, i, j, base) ==
  IF j <= i THEN 0
  ELSE DigitsVal(s, i, j - 1, base) * base + HexVal(s[j - 1])

RECURSIVE Pow(_, _)
Pow(b, n) == IF n <= 0 THEN 1 ELSE b * Pow(b, n - 1)

RECURSIVE NumDigits(_)
NumDigits(m) == IF m < 10 THEN 1 ELSE 1 + NumDigits(m \div 10)

\* the nine leading decimal digits of m > 0, as a number
Lead9(m) ==
  LET nd == NumDigits(m)
  IN IF nd <= 9 THEN m * Pow(10, 9 - nd) ELSE m \div Pow(10, nd - 9)

\* ERANGE: |m * 10^e| above DBL_MAX (1.7976931348623157e308) or, nonzero,
\* below DBL_MIN (2.2250738585072014e-308)
OutOfRange(m, e) ==
  LET mag == NumDigits(m) + e   \* 10^(mag-1) <= m * 10^e < 10^mag
  IN /\ m # 0
     /\ \/ mag > 309
        \/ mag = 309 /\ Lead9(m) > 179769313
        \/ mag < -307
        \/ mag = -307 /\ Lead9(m) < 222507386

\* an optional exponent part at index i: marker, optional sign, digits.
\* [ok, end, exp]; a marker without digits is not part of the number.
ExpPart(s, i, markers) ==
  LET hasMark == i <= Len(s) /\ s[i] \in markers
      hasSign == hasMark /\ i + 1 <= Len(s) /\ s[i + 1] \in {"+", "-"}
      ds == IF hasSign THEN i + 2 ELSE i + 1
      de == ScanWhile(s, ds, Digits)
      mag == DigitsVal(s, ds, de, 10)
  IN IF hasMark /\ de > ds
       THEN [ok |-> TRUE, end |-> de,
             exp |-> IF hasSign /\ s[i + 1] = "-" THEN 0 - mag ELSE mag]
       ELSE [ok |-> FALSE, end |-> i, exp |-> 0]

\* digits with an optional radix point, from index i, in digit set `set`:
\* [ok, end, int digits value and count of fraction digits]
Mantissa(s, i, set, base) ==
  LET ie == ScanWhile(s, i, set)
      hasPoint == ie <= Len(s) /\ s[ie] = "."
      fe == IF hasPoint THEN ScanWhile(s, ie + 1, set) ELSE ie
      nInt == ie - i
      nFrac == IF hasPoint THEN fe - (ie + 1) ELSE 0
  IN [ok |-> nInt + nFrac >= 1,
      end |-> fe,
      nFrac |-> nFrac,
      m |-> DigitsVal(s, i, ie, base) * Pow(base, nFrac)
            + (IF hasPoint THEN DigitsVal(s, ie + 1, fe, base) ELSE 0)]

Strtod(s) ==
  LET hasSign == Len(s) >= 1 /\ s[1] \in {"+", "-"}
      neg == hasSign /\ s[1] = "-"
      i0 == IF hasSign THEN 2 ELSE 1
      low == LowerStr(s)
      sgn(m) == IF neg THEN 0 - m ELSE m
      isHex == /\ MatchAt(low, <<"0", "x">>, i0)
               /\ Mantissa(s, i0 + 2, HexDigits, 16).ok
      hm == Mantissa(s, i0 + 2, HexDigits, 16)
      hx == ExpPart(s, hm.end, {"p", "P"})
      hb == hx.exp - 4 * hm.nFrac          \* value is hm.m * 2^hb
      hme == IF hb >= 0 THEN <<hm.m * Pow(2, hb), 0>>
             ELSE <<hm.m * Pow(5, 0 - hb), hb>>
      dm == Mantissa(s, i0, Digits, 10)
      dx == ExpPart(s, dm.end, {"e", "E"})
      de == dx.exp - dm.nFrac              \* value is dm.m * 10^de
      noConv == [val |-> Zero, end |-> 0, erange |-> FALSE]
      finite(m, e, end) ==
        IF OutOfRange(m, e)
          THEN [val |-> IF NumDigits(m) + e > 0 THEN Inf(neg) ELSE Zero,
                end |-> end, erange |-> TRUE]
          ELSE [val |-> Num(sgn(m), e), end |-> end, erange |-> FALSE]
  IN IF MatchAt(low, <<"i", "n", "f", "i", "n", "i", "t", "y">>, i0)
       THEN [val |-> Inf(neg), end |-> i0 + 7, erange |-> FALSE]
     ELSE IF MatchAt(low, <<"i", "n", "f">>, i0)
       THEN [val |-> Inf(neg), end |-> i0 + 2, erange |-> FALSE]
     ELSE IF MatchAt(low, <<"n", "a", "n">>, i0)
       THEN [val |-> NaN, end |-> i0 + 2, erange |-> FALSE]
     ELSE IF isHex THEN finite(hme[1], hme[2], hx.end - 1)
     ELSE IF dm.ok THEN finite(dm.m, de, dx.end - 1)
     ELSE noConv

-----------------------------------------------------------------------------
(* RbtContext (RbtStringContext): vm maps a name to its RbtVble; the        *)
(* RbtVble objects live in `cells`, and a cell's index is its identity      *)
(* (the address a token's reference holds).                                 *)

EmptyContext == [vm |-> <<>>, cells |-> <<>>]

Names(cx) == DOMAIN cx.vm

\* Assign(key, val): SetValue on the existing RbtVble, else a new RbtVble
Assign(cx, key, val) ==
  IF key \in DOMAIN cx.vm
    THEN [cx EXCEPT !.cells[cx.vm[key]].value = val]
    ELSE [vm |-> [k \in DOMAIN cx.vm \cup {key} |->
                    IF k = key THEN Len(cx.cells) + 1 ELSE cx.vm[k]],
          cells |-> Append(cx.cells, [name |-> key, value |-> val])]

\* GetVble(key): a reference to the RbtVble stored under key
GetVble(cx, key) == cx.vm[key]

\* RbtVble::GetValue() through a reference
GetValue(cx, ref) == cx.cells[ref].value

-----------------------------------------------------------------------------
(* RbtToken: a command, or a reference to an RbtVble of the context.        *)
(* A Current() call that throws is recorded in `out` by the kind of error.  *)

CommandToken(c) == [kind |-> "Operator", comm |-> c, vble |-> 0]
VbleToken(ref) == [kind |-> "VariableRef", comm |-> "NONE", vble |-> ref]
NullToken == [kind |-> "null", comm |-> "NONE", vble |-> 0]
EmptyTokenError == [kind |-> "EmptyToken", comm |-> "NONE", vble |-> 0]
UnrecognizedTokenError == [kind |-> "UnrecognizedToken", comm |-> "NONE", vble |-> 0]

IsError(r) == r.kind \in {"EmptyToken", "UnrecognizedToken"}

\* the operator vocabulary of translate()
IsCommandWord(s) ==
  s \in {<<"+">>, <<"-">>, <<"*">>, <<"/">>, <<"i", "f">>, <<"l", "o", "g">>,
         <<"e", "x", "p">>, <<"a", "n", "d">>}

\* mutant: the tokens of "log" and "exp" interchanged
CommandOf_LogExpSwapped(s) ==
  CASE s = <<"+">> -> "ADD"
    [] s = <<"-">> -> "SUB"
    [] s = <<"*">> -> "MUL"
    [] s = <<"/">> -> "DIV"
    [] s = <<"i", "f">> -> "IF"
    [] s = <<"l", "o", "g">> -> "EXP"
    [] s = <<"e", "x", "p">> -> "LOG"
    [] s = <<"a", "n", "d">> -> "AND"

CommandOf(s) ==
  CASE s = <<"+">> -> "ADD"
    [] s = <<"-">> -> "SUB"
    [] s = <<"*">> -> "MUL"
    [] s = <<"/">> -> "DIV"
    [] s = <<"i", "f">> -> "IF"
    [] s = <<"l", "o", "g">> -> "LOG"
    [] s = <<"e", "x", "p">> -> "EXP"
    [] s = <<"a", "n", "d">> -> "AND"

\* mutant: find_first_of() in place of find(): any one letter of the pattern
IsScoreName_FirstOf(s) ==
  \E i \in 1..Len(s) :
    s[i] \in {"S", "C", "O", "R", "E", "I", "T", "L", "G"}

\* the scoring-quantity test of translate()
IsScoreName(s) ==
  \/ Find(s, <<"S", "C", "O", "R", "E">>)
  \/ Find(s, <<"S", "I", "T", "E">>)
  \/ Find(s, <<"L", "I", "G">>)

\* mutant: only errno is tested, characters left over are accepted
ParsesAsDouble_NoEndCheck(s) == ~Strtod(s).erange

\* !errno && !*error after strtod
ParsesAsDouble(s) ==
  LET r == Strtod(s) IN ~r.erange /\ r.end = Len(s)

\* The results below are [res, cx, assigns]: the token returned or the error
\* thrown, the context afterwards, and the Assign calls made.

\* mutant: the token is built on a copy of the RbtVble, not on the entry
ScoreBranch_Copy(cx, s) ==
  LET c1 == Assign(cx, s, Zero)
      c2 == [c1 EXCEPT !.cells = Append(c1.cells, [name |-> s, value |-> Zero])]
  IN [res |-> VbleToken(Len(c2.cells)), cx |-> c2,
      assigns |-> <<[name |-> s, value |-> Zero]>>]

\* mutant: the name is assigned in a context started afresh
ScoreBranch_FreshContext(cx, s) ==
  LET c1 == Assign(EmptyContext, s, Zero)
  IN [res |-> VbleToken(GetVble(c1, s)), cx |-> c1,
      assigns |-> <<[name |-> s, value |-> Zero]>>]

\* mutant: the token is built without the Assign that makes the entry
ScoreBranch_NoAssign(cx, s) ==
  [res |-> VbleToken(IF s \in DOMAIN cx.vm THEN cx.vm[s] ELSE Len(cx.cells) + 1),
   cx |-> cx, assigns |-> <<>>]

\* a scoring-quantity name: contextp->Assign(s, 0.0); token on GetVble(s)
ScoreBranch(cx, s) ==
  LET c1 == Assign(cx, s, Zero)
  IN [res |-> VbleToken(GetVble(c1, s)), cx |-> c1,
      assigns |-> <<[name |-> s, value |-> Zero]>>]

\* mutant: the literal is assigned 0.0, as a scoring name is
LiteralBranch_AssignsZero(cx, s) ==
  LET c1 == Assign(cx, s, Zero)
  IN [res |-> VbleToken(GetVble(c1, s)), cx |-> c1,
      assigns |-> <<[name |-> s, value |-> Zero]>>]

\* a literal: contextp->Assign(s, val); token on GetVble(s)
LiteralBranch(cx, s) ==
  LET val == Strtod(s).val
      c1 == Assign(cx, s, val)
  IN [res |-> VbleToken(GetVble(c1, s)), cx |-> c1,
      assigns |-> <<[name |-> s, value |-> val]>>]

\* mutant: a word that starts with an operator word is that operator
Classify_OperatorPrefix(cx, s) ==
  LET ws == {w \in {<<"+">>, <<"-">>, <<"*">>, <<"/">>, <<"i", "f">>, <<"l", "o", "g">>,
                    <<"e", "x", "p">>, <<"a", "n", "d">>} : MatchAt(s, w, 1)}
  IN IF ws # {}
       THEN [res |-> CommandToken(CommandOf(CHOOSE w \in ws : TRUE)),
             cx |-> cx, assigns |-> <<>>]
     ELSE IF IsScoreName(s) THEN ScoreBranch(cx, s)
     ELSE IF ParsesAsDouble(s) THEN LiteralBranch(cx, s)
     ELSE [res |-> UnrecognizedTokenError, cx |-> cx, assigns |-> <<>>]

\* translate(s) past the check for the empty word
Classify(cx, s) ==
  IF IsCommandWord(s)
    THEN [res |-> CommandToken(CommandOf(s)), cx |-> cx, assigns |-> <<>>]
  ELSE IF IsScoreName(s) THEN ScoreBranch(cx, s)
  ELSE IF ParsesAsDouble(s) THEN LiteralBranch(cx, s)
  ELSE [res |-> UnrecognizedTokenError, cx |-> cx, assigns |-> <<>>]

\* mutant: no check for the empty word
translate_NoEmptyCheck(cx, s) == Classify(cx, s)

\* translate(s) on context cx
translate(cx, s) ==
  IF Len(s) = 0
    THEN [res |-> EmptyTokenError, cx |-> cx, assigns |-> <<>>]
    ELSE Classify(cx, s)

-----------------------------------------------------------------------------
(* The istream and operator>>(istream&, string&)                            *)

NewStream(chars) == [buf |-> chars, pos |-> 0, eofbit |-> FALSE, failbit |-> FALSE]

\* mutant: getline(is, str): the rest of the line in place of one word
Extract_Line(is, str) ==
  IF is.eofbit \/ is.failbit
    THEN [is |-> [is EXCEPT !.failbit = TRUE], str |-> str]
  ELSE IF is.pos >= Len(is.buf)
    THEN [is |-> [is EXCEPT !.eofbit = TRUE, !.failbit = TRUE], str |-> <<>>]
  ELSE LET q == ScanWhile(is.buf, is.pos + 1,
                          {c \in {is.buf[i] : i \in 1..Len(is.buf)} : c # "\n"})
       IN [is |-> [is EXCEPT !.pos = IF q > Len(is.buf) THEN Len(is.buf) ELSE q,
                             !.eofbit = (q > Len(is.buf))],
           str |-> SubSeq(is.buf, is.pos + 1, q - 1)]

\* `is >> str`: [is, str] afterwards.  The sentry fails when the stream is
\* not good() or when only whitespace is left; str is erased and filled only
\* after the sentry succeeded, otherwise it keeps its value.
Extract(is, str) ==
  IF is.eofbit \/ is.failbit
    THEN [is |-> [is EXCEPT !.failbit = TRUE], str |-> str]
  ELSE LET p == ScanWhile(is.buf, is.pos + 1, Whitespace)   \* first non-space
       IN IF p > Len(is.buf)
            THEN [is |-> [is EXCEPT !.pos = Len(is.buf),
                                    !.eofbit = TRUE, !.failbit = TRUE],
                  str |-> str]
            ELSE LET q == ScanWhile(is.buf, p, {c \in {is.buf[i] : i \in p..Len(is.buf)} :
                                                  c \notin Whitespace})
                 IN [is |-> [is EXCEPT !.pos = q - 1,
                                       !.eofbit = (q > Len(is.buf))],
                     str |-> SubSeq(is.buf, p, q - 1)]

-----------------------------------------------------------------------------
(* Input streams *)

\* words of the classes translate() distinguishes, met in any order
IterWords ==
  { <<"+">>, <<"2">>, <<"S", "I", "T", "E">>, <<"f", "o", "o">> }

\* further words, met one at a time
SingleWords ==
  { <<"-">>, <<"*">>, <<"/">>, <<"i", "f">>, <<"l", "o", "g">>, <<"e", "x", "p">>,
    <<"a", "n", "d">>, <<"L", "O", "G">>, <<"I", "f">>, <<"l", "o", "g", "1">>,
    <<"S", "C", "O", "R", "E">>, <<"3", "L", "I", "G">>,
    <<"M", "Y", "_", "S", "C", "O", "R", "E", "_", "X">>,
    <<"3", ".", "1", "4">>, <<"2", ".", "0">>, <<"-", "2">>, <<"+", "1">>, <<"1", "e", "1", "0">>,
    <<"1", "e", "9", "9", "9">>, <<"1", "e", "-", "9", "9", "9">>,
    <<"0", "x", "1", "A">>, <<"0", "x">>, <<"i", "n", "f">>, <<"n", "a", "n">>,
    <<"3", ".", "1", "4", "x">> }

GenAlphabet == {"L", "I", "G", "1", ".", "e", "-"}

\* all words of length 1..MaxWordLen over GenAlphabet
GenWords == UNION {[1..n -> GenAlphabet] : n \in 1..MaxWordLen}

SCORE_INTER == <<"S", "C", "O", "R", "E", ".", "I", "N", "T", "E", "R">>

RECURSIVE Join(_)
Join(ws) ==
  IF Len(ws) = 0 THEN <<>>
  ELSE IF Len(ws) = 1 THEN ws[1]
  ELSE ws[1] \o <<" ">> \o Join(Tail(ws))

\* the end-to-end scenario streams
ScenarioA == Join(<< <<"2">>, <<"3">>, <<"+">> >>)
ScenarioB == Join(<< SCORE_INTER, <<"0">>, <<"a", "n", "d">> >>)
ScenarioD == Join(<< <<"3", ".", "1", "4">>, <<"L", "O", "G">> >>)

WordLists == UNION {[1..n -> IterWords] : n \in 0..MaxWords}

\* every word list, with and without trailing whitespace, and the scenarios
Streams ==
  {Join(ws) : ws \in WordLists}
    \cup {Join(ws) \o <<"\n">> : ws \in WordLists}
    \cup {ScenarioA, ScenarioB, ScenarioD, <<" ">> \o ScenarioA \o <<" ", "\n">>}

\* streams of one word, and the stream of none
WordStreams == SingleWords \cup IterWords \cup GenWords \cup {<<>>}

ExtNames == {SCORE_INTER}
One == Num(1, 0)
ExtValues == {One}

-----------------------------------------------------------------------------
(* RbtBaseBiMolTransform: an observer of the workspace that caches the      *)
(* receptor (model 0), the ligand (model 1) and the solvent (models 2...).  *)
(* An RbtModelPtr is a number, 0 the null pointer.  Sequences count from 1: *)
(* model i of the workspace is wsModels[i + 1].                             *)

ModelPtrs == 0..NumModelObjects

Subjects == {"workspace", "other"}

\* the members of a transform after construction
NewTransform ==
  /\ m_spReceptor = 0
  /\ m_spLigand = 0
  /\ m_solventList = <<>>
  /\ hooks = <<>>
  /\ subject = "none"
  /\ updates = 0

\* no transform is in use
NoTransform == wsModels = <<>> /\ NewTransform

\* pWorkSpace->GetModels(i): the models from index i on
GetModels(models, i) ==
  IF i < Len(models) THEN SubSeq(models, i + 1, Len(models)) ELSE <<>>

\* mutant: SetupTransform() is called before the caches are brought up to date
Update_TransformFirst(theChangedSubject) ==
  /\ updates < MaxUpdates
  /\ updates' = updates + 1
  /\ subject' = theChangedSubject
  /\ IF theChangedSubject = "workspace"
       THEN LET numModels == Len(wsModels)
                newReceptor == numModels >= 1 /\ wsModels[1] # m_spReceptor
                newLigand == numModels >= 2 /\ wsModels[2] # m_spLigand
                solventList == IF numModels >= 3 THEN GetModels(wsModels, 2) ELSE <<>>
                newSolvent == Len(solventList) # Len(m_solventList)
            IN /\ m_spReceptor' = IF newReceptor THEN wsModels[1] ELSE m_spReceptor
               /\ m_spLigand' = IF newLigand THEN wsModels[2] ELSE m_spLigand
               /\ m_solventList' = IF newSolvent THEN solventList ELSE m_solventList
               /\ hooks' = <<"SetupTransform">>
                             \o (IF newReceptor THEN <<"SetupReceptor">> ELSE <<>>)
                             \o (IF newLigand THEN <<"SetupLigand">> ELSE <<>>)
                             \o (IF newSolvent THEN <<"SetupSolvent">> ELSE <<>>)
       ELSE /\ hooks' = <<>>
            /\ UNCHANGED <<m_spReceptor, m_spLigand, m_solventList>>
  /\ UNCHANGED <<wsModels, iterVars, dataVars>>

\* Update(theChangedSubject)
Update(theChangedSubject) ==
  /\ updates < MaxUpdates
  /\ updates' = updates + 1
  /\ subject' = theChangedSubject
  /\ IF theChangedSubject = "workspace"
       THEN LET numModels == Len(wsModels)
                newReceptor == numModels >= 1 /\ wsModels[1] # m_spReceptor
                newLigand == numModels >= 2 /\ wsModels[2] # m_spLigand
                solventList == IF numModels >= 3 THEN GetModels(wsModels, 2) ELSE <<>>
                newSolvent == Len(solventList) # Len(m_solventList)
            IN /\ m_spReceptor' = IF newReceptor THEN wsModels[1] ELSE m_spReceptor
               /\ m_spLigand' = IF newLigand THEN wsModels[2] ELSE m_spLigand
               /\ m_solventList' = IF newSolvent THEN solventList ELSE m_solventList
               /\ hooks' = (IF newReceptor THEN <<"SetupReceptor">> ELSE <<>>)
                             \o (IF newLigand THEN <<"SetupLigand">> ELSE <<>>)
                             \o (IF newSolvent THEN <<"SetupSolvent">> ELSE <<>>)
                             \o <<"SetupTransform">>
       ELSE /\ hooks' = <<>>
            /\ UNCHANGED <<m_spReceptor, m_spLigand, m_solventList>>
  /\ UNCHANGED <<wsModels, iterVars, dataVars>>

\* a subject notifies the transform
Notify == \E s \in Subjects : Update(s)

\* the workspace gets a model appended
AddModel ==
  /\ Len(wsModels) < MaxModels
  /\ \E m \in ModelPtrs : wsModels' = Append(wsModels, m)
  /\ UNCHANGED <<m_spReceptor, m_spLigand, m_solventList, hooks, subject, updates>>
  /\ UNCHANGED <<iterVars, dataVars>>

\* the workspace gets one of its models replaced
SetModel ==
  /\ \E i \in 1..Len(wsModels), m \in ModelPtrs :
       /\ wsModels[i] # m
       /\ wsModels' = [wsModels EXCEPT ![i] = m]
  /\ UNCHANGED <<m_spReceptor, m_spLigand, m_solventList, hooks, subject, updates>>
  /\ UNCHANGED <<iterVars, dataVars>>

\* the workspace loses its models from some index on
RemoveModels ==
  /\ \E i \in 0..(Len(wsModels) - 1) : wsModels' = SubSeq(wsModels, 1, i)
  /\ UNCHANGED <<m_spReceptor, m_spLigand, m_solventList, hooks, subject, updates>>
  /\ UNCHANGED <<iterVars, dataVars>>

-----------------------------------------------------------------------------
(* RbtCharmmDataSource: the tables read from masses.rtf and the two tables  *)
(* the constructor fills itself; a table is a function on the keys it holds *)

\* no lookup has been made
NoLookup == [fn |-> "none", key |-> "none", thrown |-> "none", value |-> "none"]

\* ConvertCommentStringToHybridState(strComment)
ConvertCommentStringToHybridState(strComment) ==
  IF Find(strComment, <<"(", "R", "B", "T", ":", ":", "S", "P", ")">>) THEN "SP"
  ELSE IF Find(strComment, <<"(", "R", "B", "T", ":", ":", "S", "P", "2", ")">>) THEN "SP2"
  ELSE IF Find(strComment, <<"(", "R", "B", "T", ":", ":", "S", "P", "3", ")">>) THEN "SP3"
  ELSE IF Find(strComment, <<"(", "R", "B", "T", ":", ":", "A", "R", "O", "M", ")">>) THEN "AROM"
  ELSE IF Find(strComment, <<"(", "R", "B", "T", ":", ":", "T", "R", "I", ")">>) THEN "TRI"
  ELSE "UNDEFINED"

\* the last entry of the type list with atom type number n: the one whose
\* assignment to m_atomTypes[n] the loop makes last
LastNumbered(typeList, n) ==
  typeList[CHOOSE i \in DOMAIN typeList :
             /\ typeList[i].nAtomType = n
             /\ \A j \in DOMAIN typeList : typeList[j].nAtomType = n => j <= i]

\* the last entry of the type list with atom type name t
LastNamed(typeList, t) ==
  typeList[CHOOSE i \in DOMAIN typeList :
             /\ typeList[i].strAtomType = t
             /\ \A j \in DOMAIN typeList : typeList[j].strAtomType = t => j <= i]

\* RbtCharmmDataSource(strMassesFile), typeList being the file's type list
RbtCharmmDataSource(typeList) ==
  LET numbers == {typeList[i].nAtomType : i \in DOMAIN typeList}
      names == {typeList[i].strAtomType : i \in DOMAIN typeList}
  IN /\ m_atomTypes = [n \in numbers |-> LastNumbered(typeList, n).strAtomType]
     /\ m_atomicNumber = [t \in names |-> LastNamed(typeList, t).atomicNo]
     /\ m_hybridState =
          [t \in names |->
             ConvertCommentStringToHybridState(LastNamed(typeList, t).comment)]
     /\ m_implicitHydrogens =
          [t \in {"CH1E", "CH2E", "CH3E", "C5RE", "C6RE", "SH1E", "NH2E"} |->
             CASE t = "CH1E" -> 1 [] t = "CH2E" -> 2 [] t = "CH3E" -> 3
               [] t = "C5RE" -> 1 [] t = "C6RE" -> 1 [] t = "SH1E" -> 1
               [] t = "NH2E" -> 2]
     /\ m_formalCharge =
          [t \in {"OC", "HC", "NC"} |->
             CASE t = "OC" -> -1 [] t = "HC" -> 1 [] t = "NC" -> 1]
     /\ ret = NoLookup

\* no data source is in use
NoDataSource ==
  /\ m_atomTypes = <<>>
  /\ m_atomicNumber = <<>>
  /\ m_hybridState = <<>>
  /\ m_implicitHydrogens = <<>>
  /\ m_formalCharge = <<>>
  /\ ret = NoLookup

Returns(fn, key, value) == [fn |-> fn, key |-> key, thrown |-> "none", value |-> value]
Throws(fn, key, error) == [fn |-> fn, key |-> key, thrown |-> error, value |-> "none"]

\* AtomTypeString(nAtomType)
AtomTypeString(nAtomType) ==
  /\ ret' = IF nAtomType \in DOMAIN m_atomTypes
              THEN Returns("AtomTypeString", nAtomType, m_atomTypes[nAtomType])
              ELSE Throws("AtomTypeString", nAtomType, "RbtFileMissingParameter")
  /\ UNCHANGED <<tables, iterVars, transformVars>>

\* mutant: m_implicitHydrogens[strFFType], which makes the entry it misses
ImplicitHydrogens_Inserts(strFFType) ==
  /\ ret' = IF strFFType \in DOMAIN m_implicitHydrogens
              THEN Returns("ImplicitHydrogens", strFFType, m_implicitHydrogens[strFFType])
              ELSE Returns("ImplicitHydrogens", strFFType, 0)
  /\ m_implicitHydrogens' =
       [t \in DOMAIN m_implicitHydrogens \cup {strFFType} |->
          IF t \in DOMAIN m_implicitHydrogens THEN m_implicitHydrogens[t] ELSE 0]
  /\ UNCHANGED <<m_atomTypes, m_atomicNumber, m_hybridState, m_formalCharge>>
  /\ UNCHANGED <<iterVars, transformVars>>

\* ImplicitHydrogens(strFFType)
ImplicitHydrogens(strFFType) ==
  /\ ret' = IF strFFType \in DOMAIN m_implicitHydrogens
              THEN Returns("ImplicitHydrogens", strFFType, m_implicitHydrogens[strFFType])
              ELSE Returns("ImplicitHydrogens", strFFType, 0)
  /\ UNCHANGED <<tables, iterVars, transformVars>>

\* AtomicNumber(strFFType)
AtomicNumber(strFFType) ==
  /\ ret' = IF strFFType \in DOMAIN m_atomicNumber
              THEN Returns("AtomicNumber", strFFType, m_atomicNumber[strFFType])
              ELSE Throws("AtomicNumber", strFFType, "RbtFileMissingParameter")
  /\ UNCHANGED <<tables, iterVars, transformVars>>

\* FormalCharge(strFFType)
FormalCharge(strFFType) ==
  /\ ret' = IF strFFType \in DOMAIN m_formalCharge
              THEN Returns("FormalCharge", strFFType, m_formalCharge[strFFType])
              ELSE Returns("FormalCharge", strFFType, 0)
  /\ UNCHANGED <<tables, iterVars, transformVars>>

\* HybridState(strFFType)
HybridState(strFFType) ==
  /\ ret' = IF strFFType \in DOMAIN m_hybridState
              THEN Returns("HybridState", strFFType, m_hybridState[strFFType])
              ELSE Throws("HybridState", strFFType, "RbtFileMissingParameter")
  /\ UNCHANGED <<tables, iterVars, transformVars>>

-----------------------------------------------------------------------------
(* The iterator *)

\* no copy of the iterator has been made
NoDup == [live |-> FALSE, strtok |-> <<>>, current |-> NullToken]

\* RbtStringTokenIter(fn, co): binds the stream and the context and reads
\* the first word into the (empty) strtok
Construct(chars, n) ==
  LET r == Extract(NewStream(chars), <<>>)
  IN /\ filep = r.is
     /\ strtok = r.str
     /\ current = NullToken
     /\ contextp = EmptyContext
     /\ seen = <<>>
     /\ out = <<>>
     /\ log = <<>>
     /\ calls = <<>>
     /\ budget = n
     /\ dup = NoDup
     /\ NoTransform
     /\ NoDataSource

Init == \E chars \in Streams : Construct(chars, MaxCalls)

InitWord == \E chars \in WordStreams : Construct(chars, MaxClassify)

Call(op) == [op |-> op, name |-> <<>>, value |-> Zero]

NumCalls(op) == Cardinality({i \in 1..Len(calls) : calls[i].op = op})

\* mutant: Next() classifies the word it has read
IterNext_Classifies ==
  /\ NumCalls("C") + NumCalls("N") < budget
  /\ LET r == Extract(filep, strtok)
         t == translate(contextp, r.str)
     IN /\ filep' = r.is
        /\ strtok' = r.str
        /\ contextp' = t.cx
        /\ log' = log \o t.assigns
  /\ calls' = Append(calls, Call("N"))
  /\ UNCHANGED <<current, seen, out, budget, dup>>
  /\ UNCHANGED <<transformVars, dataVars>>

\* Next(RbtContextPtr): (*filep) >> strtok
IterNext ==
  /\ NumCalls("C") + NumCalls("N") < budget
  /\ LET r == Extract(filep, strtok)
     IN /\ filep' = r.is
        /\ strtok' = r.str
  /\ calls' = Append(calls, Call("N"))
  /\ UNCHANGED <<current, contextp, seen, out, log, budget, dup>>
  /\ UNCHANGED <<transformVars, dataVars>>

\* mutant: Current() also reads the next word
Current_AutoAdvance ==
  /\ NumCalls("C") + NumCalls("N") < budget
  /\ LET r == translate(contextp, strtok)
         x == Extract(filep, strtok)
     IN /\ current' = IF IsError(r.res) THEN current ELSE r.res
        /\ contextp' = r.cx
        /\ out' = Append(out, r.res)
        /\ log' = log \o r.assigns
        /\ filep' = x.is
        /\ strtok' = x.str
  /\ seen' = Append(seen, strtok)
  /\ calls' = Append(calls, Call("C"))
  /\ UNCHANGED <<budget, dup>>
  /\ UNCHANGED <<transformVars, dataVars>>

\* mutant: a Current() that throws leaves no current token behind
Current_ResetsOnThrow ==
  /\ NumCalls("C") + NumCalls("N") < budget
  /\ LET r == translate(contextp, strtok)
     IN /\ current' = IF IsError(r.res) THEN NullToken ELSE r.res
        /\ contextp' = r.cx
        /\ out' = Append(out, r.res)
        /\ log' = log \o r.assigns
  /\ seen' = Append(seen, strtok)
  /\ calls' = Append(calls, Call("C"))
  /\ UNCHANGED <<filep, strtok, budget, dup>>
  /\ UNCHANGED <<transformVars, dataVars>>

\* Current(): current = translate(strtok); return current.
\* When translate throws, current is not assigned.
Current ==
  /\ NumCalls("C") + NumCalls("N") < budget
  /\ LET r == translate(contextp, strtok)
     IN /\ current' = IF IsError(r.res) THEN current ELSE r.res
        /\ contextp' = r.cx
        /\ out' = Append(out, r.res)
        /\ log' = log \o r.assigns
  /\ seen' = Append(seen, strtok)
  /\ calls' = Append(calls, Call("C"))
  /\ UNCHANGED <<filep, strtok, budget, dup>>
  /\ UNCHANGED <<transformVars, dataVars>>

\* the external parameter source: contextp->Assign(name, value)
ExtAssign ==
  /\ NumCalls("X") < MaxExt
  /\ \E name \in Names(contextp) \cup ExtNames, v \in ExtValues :
       /\ contextp' = Assign(contextp, name, v)
       /\ calls' = Append(calls, [op |-> "X", name |-> name, value |-> v])
  /\ UNCHANGED <<filep, strtok, current, seen, out, log, budget, dup>>
  /\ UNCHANGED <<transformVars, dataVars>>

Next == IterNext \/ Current \/ ExtAssign

\* the iterator over streams of several words
Spec == Init /\ [][Next]_vars

\* the classifier on one word at a time
SpecWord == InitWord /\ [][Next]_vars

-----------------------------------------------------------------------------
(* Copies of the iterator *)

\* RbtStringTokenIter(const RbtStringTokenIter& ti): every member is copied,
\* filep and contextp as pointers
CopyConstruct ==
  /\ ~dup.live
  /\ dup' = [live |-> TRUE, strtok |-> strtok, current |-> current]
  /\ calls' = Append(calls, Call("CP"))
  /\ UNCHANGED <<filep, strtok, current, contextp, seen, out, log, budget>>
  /\ UNCHANGED <<transformVars, dataVars>>

\* copy(ti) on an iterator that exists already: the same four assignments
copy ==
  /\ dup.live
  /\ NumCalls("CY") = 0
  /\ dup' = [live |-> TRUE, strtok |-> strtok, current |-> current]
  /\ calls' = Append(calls, Call("CY"))
  /\ UNCHANGED <<filep, strtok, current, contextp, seen, out, log, budget>>
  /\ UNCHANGED <<transformVars, dataVars>>

\* Next() on the copy: (*filep) >> strtok, on the istream both point to
DupNext ==
  /\ dup.live
  /\ NumCalls("DN") < MaxDupCalls
  /\ LET r == Extract(filep, dup.strtok)
     IN /\ filep' = r.is
        /\ dup' = [dup EXCEPT !.strtok = r.str]
  /\ calls' = Append(calls, Call("DN"))
  /\ UNCHANGED <<strtok, current, contextp, seen, out, log, budget>>
  /\ UNCHANGED <<transformVars, dataVars>>

NextCopy == IterNext \/ Current \/ CopyConstruct \/ copy \/ DupNext

\* an iterator and its copy, called in any interleaving
InitCopy == \E chars \in Streams : Construct(chars, MaxCopyCalls)

SpecCopy == InitCopy /\ [][NextCopy]_vars

-----------------------------------------------------------------------------
(* The transform and the data source on their own *)

\* no iterator is in use
NoIterator ==
  /\ filep = NewStream(<<>>)
  /\ strtok = <<>>
  /\ current = NullToken
  /\ contextp = EmptyContext
  /\ seen = <<>>
  /\ out = <<>>
  /\ log = <<>>
  /\ calls = <<>>
  /\ budget = 0
  /\ dup = NoDup

\* the model lists a workspace may hold
ModelLists == UNION {[1..n -> ModelPtrs] : n \in 0..MaxModels}

\* a new transform, registered with a workspace of any content
InitBiMol ==
  /\ wsModels \in ModelLists
  /\ NewTransform
  /\ NoIterator
  /\ NoDataSource

NextBiMol == Notify \/ AddModel \/ SetModel \/ RemoveModels

SpecBiMol == InitBiMol /\ [][NextBiMol]_vars

\* entries of a masses.rtf type list: two share a number, two share a name
FileEntries ==
  { [nAtomType |-> 1, strAtomType |-> "HC", atomicNo |-> 1, comment |-> <<>>],
    [nAtomType |-> 2, strAtomType |-> "CH1E", atomicNo |-> 6,
     comment |-> <<"(", "R", "B", "T", ":", ":", "S", "P", "3", ")">>],
    [nAtomType |-> 2, strAtomType |-> "OC", atomicNo |-> 8,
     comment |-> <<"(", "R", "B", "T", ":", ":", "S", "P", "2", ")">>],
    [nAtomType |-> 3, strAtomType |-> "OC", atomicNo |-> 8,
     comment |-> <<" ", "(", "R", "B", "T", ":", ":", "T", "R", "I", ")">>] }

TypeLists == UNION {[1..n -> FileEntries] : n \in 0..MaxTypes}

\* the keys looked up: in every table, in some, in none
FFTypes == {"HC", "CH1E", "OC", "NH2E", "NC", "CT", ""}
AtomTypeNumbers == 0..MaxAtomType

InitCharmm ==
  /\ \E typeList \in TypeLists : RbtCharmmDataSource(typeList)
  /\ NoIterator
  /\ NoTransform

NextCharmm ==
  \/ \E n \in AtomTypeNumbers : AtomTypeString(n)
  \/ \E t \in FFTypes : ImplicitHydrogens(t)
  \/ \E t \in FFTypes : AtomicNumber(t)
  \/ \E t \in FFTypes : FormalCharge(t)
  \/ \E t \in FFTypes : HybridState(t)

SpecCharmm == InitCharmm /\ [][NextCharmm]_vars

-----------------------------------------------------------------------------
(* Vocabulary of the properties *)

\* the whitespace-delimited words of a character sequence
RECURSIVE SplitWords(_, _, _)
SplitWords(chars, i, word) ==
  IF i > Len(chars)
    THEN IF word = <<>> THEN <<>> ELSE <<word>>
  ELSE IF chars[i] \in Whitespace
    THEN (IF word = <<>> THEN <<>> ELSE <<word>>) \o SplitWords(chars, i + 1, <<>>)
  ELSE SplitWords(chars, i + 1, Append(word, chars[i]))

StreamWords == SplitWords(filep.buf, 1, <<>>)

\* the Current() and Next() calls, without the external assignments
IterCalls == SelectSeq(calls, LAMBDA c : c.op \in {"C", "N"})

\* the consumer has alternated Current(), Next(), Current(), ...
Alternating ==
  \A i \in 1..Len(IterCalls) :
    IterCalls[i].op = IF i % 2 = 1 THEN "C" ELSE "N"

LastCall == calls[Len(calls)]
LastOut == out[Len(out)]

\* this step is a Current() call
CurrentStep == calls' = Append(calls, Call("C"))
\* this step is a Next() call
NextStep == calls' = Append(calls, Call("N"))

\* the result of the Current() call of this step
Result == out'[Len(out')]

-----------------------------------------------------------------------------
(* C1: a word containing SCORE, SITE or LIG classifies to a VariableRef     *)
(* whose cell reads 0.0 at first sight; classifying it again returns the    *)
(* same cell, which still reads the value last assigned to it, and no       *)
(* second entry is made.  Fails: translate() assigns 0.0 on every           *)
(* classification, so an externally assigned value is lost.                 *)
C1_ScoreNameKeepsValue ==
  [][(CurrentStep /\ IsScoreName(strtok)) =>
       /\ Result.kind = "VariableRef"
       /\ contextp'.cells[Result.vble].name = strtok
       /\ IF \E i \in 1..Len(seen) : seen[i] = strtok
            THEN /\ Result.vble = contextp.vm[strtok]
                 /\ Names(contextp') = Names(contextp)
                 /\ Len(contextp'.cells) = Len(contextp.cells)
                 /\ GetValue(contextp', Result.vble)
                      = GetValue(contextp, contextp.vm[strtok])
            ELSE GetValue(contextp', Result.vble) = Zero]_vars

(* C2: when Next() finds no further word the buffered word becomes empty,   *)
(* so the following Current() fails with EmptyToken; a consumer alternating *)
(* Current() and Next() over n words gets n results and then EmptyToken.    *)
(* Fails: a failed extraction leaves strtok holding the last word.          *)
C2_EndOfStreamEmptiesWord ==
  /\ filep.failbit => strtok = <<>>
  /\ (Alternating /\ Len(out) > Len(StreamWords))
       => out[Len(StreamWords) + 1] = EmptyTokenError

(* C3: each word of the operator vocabulary classifies to its Operator      *)
(* token, and the classification leaves the Context unchanged.              *)
OperatorTable ==
  { <<<<"+">>, "ADD">>, <<<<"-">>, "SUB">>, <<<<"*">>, "MUL">>, <<<<"/">>, "DIV">>,
    <<<<"i", "f">>, "IF">>, <<<<"l", "o", "g">>, "LOG">>,
    <<<<"e", "x", "p">>, "EXP">>, <<<<"a", "n", "d">>, "AND">> }

C3_OperatorWords ==
  [][\A e \in OperatorTable :
       (CurrentStep /\ strtok = e[1]) =>
         /\ Result = [kind |-> "Operator", comm |-> e[2], vble |-> 0]
         /\ contextp' = contextp]_vars

\* every operator word has been classified, the Context holding an entry
C3_Witness ==
  /\ Len(out) >= 1
  /\ LastCall.op = "C"
  /\ seen[Len(seen)] = <<"e", "x", "p">>
  /\ LastOut.comm = "EXP"
  /\ Names(contextp) # {}

(* C4: a word that is no operator, holds none of SCORE/SITE/LIG and parses  *)
(* entirely as a finite floating-point literal makes the Context entry      *)
(* keyed by the exact word hold the parsed value, created or overwritten,   *)
(* and classifies to a VariableRef to it; a second occurrence resolves to   *)
(* the same cell and the Context holds one entry for the word.              *)
IsFiniteLiteral(s) ==
  /\ Len(s) > 0
  /\ ~(\E e \in OperatorTable : e[1] = s)
  /\ ~IsScoreName(s)
  /\ Strtod(s).end = Len(s)
  /\ ~Strtod(s).erange
  /\ IsFinite(Strtod(s).val)

\* the values of the literals the specification names
LiteralTable ==
  { <<<<"3", ".", "1", "4">>, [k |-> "num", m |-> 314, e |-> -2]>>,
    <<<<"-", "2">>, [k |-> "num", m |-> -2, e |-> 0]>>,
    <<<<"1", "e", "1", "0">>, [k |-> "num", m |-> 1, e |-> 10]>>,
    <<<<"2">>, [k |-> "num", m |-> 2, e |-> 0]>>,
    <<<<"2", ".", "0">>, [k |-> "num", m |-> 2, e |-> 0]>>,
    <<<<".", "1">>, [k |-> "num", m |-> 1, e |-> -1]>>,
    <<<<"1", "e", "1">>, [k |-> "num", m |-> 1, e |-> 1]>> }

EntriesFor(cx, s) == {i \in 1..Len(cx.cells) : cx.cells[i].name = s}

C4_Literals ==
  [][(CurrentStep /\ IsFiniteLiteral(strtok)) =>
       /\ Result.kind = "VariableRef"
       /\ Result.vble = contextp'.vm[strtok]
       /\ contextp'.cells[Result.vble].name = strtok
       /\ GetValue(contextp', Result.vble) = Strtod(strtok).val
       /\ \A e \in LiteralTable :
            strtok = e[1] => GetValue(contextp', Result.vble) = e[2]
       /\ EntriesFor(contextp', strtok) = {Result.vble}
       /\ strtok \in Names(contextp) =>
            /\ Result.vble = contextp.vm[strtok]
            /\ Names(contextp') = Names(contextp)
            /\ Len(contextp'.cells) = Len(contextp.cells)
       /\ strtok \notin Names(contextp) =>
            /\ Names(contextp') = Names(contextp) \cup {strtok}
            /\ Len(contextp'.cells) = Len(contextp.cells) + 1]_vars

\* a literal classified twice, its entry overwritten in between
C4_Witness ==
  /\ Len(calls) = 3
  /\ calls[1].op = "C" /\ calls[2].op = "X" /\ calls[3].op = "C"
  /\ calls[2].name = <<"3", ".", "1", "4">>
  /\ seen = << <<"3", ".", "1", "4">>, <<"3", ".", "1", "4">> >>
  /\ out[1] = out[2]
  /\ out[2].kind = "VariableRef"
  /\ GetValue(contextp, out[2].vble) = [k |-> "num", m |-> 314, e |-> -2]

(* C5, as claimed: on the stream "3.14 LOG" the first Current() returns a   *)
(* VariableRef whose cell is keyed "3.14" with value 3.14, and after one    *)
(* Next() the next Current() returns the Operator token LOG.                *)
ScenarioD_Run ==
  /\ filep.buf = ScenarioD
  /\ Len(calls) = 3
  /\ calls[1].op = "C" /\ calls[2].op = "N" /\ calls[3].op = "C"

ScenarioD_First ==
  /\ out[1].kind = "VariableRef"
  /\ contextp.cells[out[1].vble]
       = [name |-> <<"3", ".", "1", "4">>, value |-> [k |-> "num", m |-> 314, e |-> -2]]
  /\ Names(contextp) = {<<"3", ".", "1", "4">>}

C5_Original ==
  ScenarioD_Run =>
    /\ ScenarioD_First
    /\ out[2] = [kind |-> "Operator", comm |-> "LOG", vble |-> 0]

(* C5, amended: on the stream "3.14 LOG" the first Current() returns a      *)
(* VariableRef whose cell is keyed "3.14" with value 3.14, and after one    *)
(* Next() the next Current() fails with UnrecognizedToken: the operator     *)
(* word is the lower-case "log".                                            *)
C5_ScenarioD ==
  ScenarioD_Run =>
    /\ ScenarioD_First
    /\ seen[2] = <<"L", "O", "G">>
    /\ out[2] = [kind |-> "UnrecognizedToken", comm |-> "NONE", vble |-> 0]
    /\ current = out[1]

C5_Witness == ScenarioD_Run /\ Len(out) = 2

(* C6: a non-empty word that is no operator word, holds none of             *)
(* SCORE/SITE/LIG and does not parse completely and without conversion      *)
(* error as a floating-point literal always fails with UnrecognizedToken;   *)
(* no token and no value is produced for it.                                *)
IsUnreadable(s) ==
  /\ Len(s) > 0
  /\ ~(\E e \in OperatorTable : e[1] = s)
  /\ ~IsScoreName(s)
  /\ (Strtod(s).end # Len(s) \/ Strtod(s).erange)

C6_Unrecognized ==
  [][(CurrentStep /\ (IsUnreadable(strtok)
                        \/ strtok \in {<<"3", ".", "1", "4", "x">>, <<"f", "o", "o">>})) =>
       /\ Result = [kind |-> "UnrecognizedToken", comm |-> "NONE", vble |-> 0]
       /\ contextp' = contextp
       /\ current' = current
       /\ log' = log]_vars

\* "3.14x" has been classified
C6_Witness ==
  /\ Len(out) >= 1
  /\ LastCall.op = "C"
  /\ seen[Len(seen)] = <<"3", ".", "1", "4", "x">>
  /\ LastOut.kind = "UnrecognizedToken"

(* C7: an empty raw word fails with EmptyToken; on a stream holding no      *)
(* word the first Current() fails with EmptyToken.                          *)
C7_EmptyWord ==
  /\ \A i \in 1..Len(out) :
       seen[i] = <<>> => out[i] = [kind |-> "EmptyToken", comm |-> "NONE", vble |-> 0]
  /\ (StreamWords = <<>> /\ Len(out) >= 1)
       => /\ out[1] = [kind |-> "EmptyToken", comm |-> "NONE", vble |-> 0]
          /\ current.kind = "null"
          /\ log = <<>>

\* Current() has been called on a stream of whitespace only
C7_Witness ==
  /\ filep.buf = <<"\n">>
  /\ Len(out) >= 1
  /\ out[1].kind = "EmptyToken"

(* C8: Current() called twice with no Next() in between yields two results  *)
(* of the same kind which, for variable and literal words, refer to the     *)
(* same cell, and the second call adds no entry to the Context.             *)
C8_CurrentTwice ==
  [][(/\ CurrentStep
      /\ Len(IterCalls) >= 1
      /\ IterCalls[Len(IterCalls)].op = "C") =>
       /\ Result.kind = LastOut.kind
       /\ Result.comm = LastOut.comm
       /\ Result.vble = LastOut.vble
       /\ Names(contextp') = Names(contextp)
       /\ Len(contextp'.cells) = Len(contextp.cells)]_vars

\* a literal or a scoring name classified twice in a row
C8_Witness ==
  /\ Len(calls) >= 2
  /\ calls[Len(calls)].op = "C"
  /\ calls[Len(calls) - 1].op = "C"
  /\ LastOut.kind = "VariableRef"
  /\ out[Len(out) - 1] = LastOut
  /\ Len(contextp.cells) = 1

(* C9: the stream "SCORE.INTER 0 and" tokenizes into a VariableRef to       *)
(* SCORE.INTER reading 0.0, a VariableRef to "0" reading 0.0 and the        *)
(* Operator AND; once the external source assigns SCORE.INTER = 1.0 and no  *)
(* further Current() is called, the first token reads 1.0.                  *)
Ops(cs) == [i \in 1..Len(cs) |-> cs[i].op]

C9_ScenarioB ==
  /\ (filep.buf = ScenarioB /\ Ops(calls) = <<"C", "N", "C", "N", "C">>) =>
       /\ out = << [kind |-> "VariableRef", comm |-> "NONE", vble |-> 1],
                   [kind |-> "VariableRef", comm |-> "NONE", vble |-> 2],
                   [kind |-> "Operator", comm |-> "AND", vble |-> 0] >>
       /\ contextp.cells = << [name |-> SCORE_INTER, value |-> Zero],
                              [name |-> <<"0">>, value |-> Zero] >>
  /\ (/\ filep.buf = ScenarioB
      /\ Ops(calls) = <<"C", "N", "C", "N", "C", "X">>
      /\ calls[6].name = SCORE_INTER) =>
       /\ out[1].kind = "VariableRef"
       /\ contextp.cells[out[1].vble].name = SCORE_INTER
       /\ GetValue(contextp, out[1].vble) = calls[6].value
       /\ calls[6].value = [k |-> "num", m |-> 1, e |-> 0]
       /\ GetValue(contextp, out[2].vble) = Zero
  /\ \A j \in 1..Len(calls) :
       (/\ calls[j].op = "X"
        /\ \A i \in (j + 1)..Len(calls) : calls[i].op \notin {"C", "X"}
        /\ \E i \in 1..Len(out) :
             /\ out[i].kind = "VariableRef"
             /\ contextp.cells[out[i].vble].name = calls[j].name) =>
         \A i \in 1..Len(out) :
           (out[i].kind = "VariableRef"
              /\ contextp.cells[out[i].vble].name = calls[j].name)
             => GetValue(contextp, out[i].vble) = calls[j].value

C9_Witness ==
  /\ filep.buf = ScenarioB
  /\ Ops(calls) = <<"C", "N", "C", "N", "C", "X">>
  /\ calls[6].name = SCORE_INTER
  /\ GetValue(contextp, out[1].vble) = [k |-> "num", m |-> 1, e |-> 0]

(* C10: when the consumer alternates Current() and Next() over the words    *)
(* w1..wn, the k-th result is the classification of wk and the Assign calls *)
(* on the Context are made in the order of the words; "2 3 +" yields        *)
(* VariableRef("2") = 2.0, VariableRef("3") = 3.0 and Operator ADD, and the *)
(* results and the Context are those of classifying the words in turn.      *)

\* classifying the first k of the words in turn, from the empty Context
RECURSIVE InTurn(_, _)
InTurn(words, k) ==
  IF k = 0 THEN [cx |-> EmptyContext, out |-> <<>>, log |-> <<>>]
  ELSE LET before == InTurn(words, k - 1)
           r == translate(before.cx, words[k])
       IN [cx |-> r.cx,
           out |-> Append(before.out, r.res),
           log |-> before.log \o r.assigns]

C10_InOrder ==
  /\ (Alternating /\ Len(out) <= Len(StreamWords)) =>
       /\ seen = SubSeq(StreamWords, 1, Len(out))
       /\ log = InTurn(StreamWords, Len(out)).log
       /\ NumCalls("X") = 0 =>
            /\ out = InTurn(StreamWords, Len(out)).out
            /\ contextp = InTurn(StreamWords, Len(out)).cx
  /\ (/\ SplitWords(filep.buf, 1, <<>>) = << <<"2">>, <<"3">>, <<"+">> >>
      /\ Ops(calls) = <<"C", "N", "C", "N", "C">>) =>
       /\ out = << [kind |-> "VariableRef", comm |-> "NONE", vble |-> 1],
                   [kind |-> "VariableRef", comm |-> "NONE", vble |-> 2],
                   [kind |-> "Operator", comm |-> "ADD", vble |-> 0] >>
       /\ contextp.cells
            = << [name |-> <<"2">>, value |-> [k |-> "num", m |-> 2, e |-> 0]],
                 [name |-> <<"3">>, value |-> [k |-> "num", m |-> 3, e |-> 0]] >>
       /\ log = contextp.cells

C10_Witness ==
  /\ filep.buf = <<" ">> \o ScenarioA \o <<" ", "\n">>
  /\ Ops(calls) = <<"C", "N", "C", "N", "C">>
  /\ Len(out) = 3
  /\ Len(log) = 2

(* C11: a copy of an iterator does not share the stream position with the   *)
(* original: however Next() calls on the two interleave, the original       *)
(* buffers the words of the stream in turn, as if the copy had never been   *)
(* advanced.  Fails: the copy holds the same istream pointer, so a word     *)
(* read by the copy is lost to the original.                                *)
C11_CopyKeepsOwnPosition ==
  NumCalls("N") + 1 <= Len(StreamWords)
    => strtok = StreamWords[NumCalls("N") + 1]

(* C12: over construction, Next(), Current() (returning or throwing) and    *)
(* external Assign calls, the set of names of the Context never loses an    *)
(* element, and it holds no more names than the distinct scoring names and  *)
(* literal strings classified or assigned so far.                           *)

\* the words classified so far that name a scoring quantity or a literal
ClassifiedNames ==
  { seen[i] : i \in { j \in 1..Len(seen) :
      /\ Len(seen[j]) > 0
      /\ ~(\E e \in OperatorTable : e[1] = seen[j])
      /\ \/ IsScoreName(seen[j])
         \/ (Strtod(seen[j]).end = Len(seen[j]) /\ ~Strtod(seen[j]).erange) } }

\* the names the external source has assigned so far
AssignedNames == { calls[i].name : i \in { j \in 1..Len(calls) : calls[j].op = "X" } }

C12_ContextOnlyGrows ==
  /\ [][/\ Names(contextp) \subseteq Names(contextp')
        /\ Len(contextp'.cells) >= Len(contextp.cells)]_vars
  /\ [](/\ Cardinality(Names(contextp))
             <= Cardinality(ClassifiedNames \cup AssignedNames)
        /\ Names(contextp) \subseteq ClassifiedNames \cup AssignedNames)

\* two names held after a literal, a failing Current() and an external Assign
C12_Witness ==
  /\ Cardinality(Names(contextp)) = 2
  /\ NumCalls("X") = 1
  /\ LastCall.op = "C"
  /\ IsError(LastOut)
  /\ ClassifiedNames # {}

(* C13: every VariableRef token that Current() has returned refers to an    *)
(* RbtVble of the Context whose name is present in the Context, the name    *)
(* being the word that was classified.                                      *)
C13_HandlesResolve ==
  \A i \in 1..Len(out) :
    out[i].kind = "VariableRef" =>
      /\ out[i].vble \in 1..Len(contextp.cells)
      /\ contextp.cells[out[i].vble].name = seen[i]
      /\ seen[i] \in Names(contextp)
      /\ contextp.vm[seen[i]] = out[i].vble

\* two handles returned, the Context assigned to from outside afterwards
C13_Witness ==
  /\ Cardinality({i \in 1..Len(out) : out[i].kind = "VariableRef"}) >= 2
  /\ Len(contextp.cells) >= 2
  /\ LastCall.op = "X"

(* C14: classification is total, with a fixed precedence: every word yields *)
(* exactly one of EmptyToken, Operator, VariableRef, UnrecognizedToken,     *)
(* decided in the order empty, exact operator word, SCORE/SITE/LIG          *)
(* substring, numeric literal, unrecognized.  A non-empty word that is no   *)
(* operator and holds SCORE, SITE or LIG anywhere ("MY_SCORE_X", "3LIG")    *)
(* yields a VariableRef keyed by the whole word, with no number parsed from *)
(* it; operators match the whole word, in its case.                         *)

\* the word holds one of the scoring keywords at some position
HoldsKeyword(s) ==
  \E pat \in {<<"S", "C", "O", "R", "E">>, <<"S", "I", "T", "E">>, <<"L", "I", "G">>} :
    \E i \in 1..Len(s) :
      /\ i + Len(pat) - 1 <= Len(s)
      /\ \A j \in 1..Len(pat) : s[i + j - 1] = pat[j]

\* the kind of token the precedence gives a word
KindOf(s) ==
  IF s = <<>> THEN "EmptyToken"
  ELSE IF \E e \in OperatorTable : e[1] = s THEN "Operator"
  ELSE IF HoldsKeyword(s) THEN "VariableRef"
  ELSE IF Strtod(s).end = Len(s) /\ ~Strtod(s).erange THEN "VariableRef"
  ELSE "UnrecognizedToken"

C14_Precedence ==
  [][CurrentStep =>
       /\ Result.kind = KindOf(strtok)
       /\ Result.kind = "Operator" <=> \E e \in OperatorTable : e[1] = strtok
       /\ strtok \in { <<"L", "O", "G">>, <<"I", "f">>, <<"l", "o", "g", "1">> }
            => Result.kind = "UnrecognizedToken"
       /\ strtok \in { <<"-", "2">>, <<"+", "1">> } => Result.kind = "VariableRef"
       /\ (/\ strtok # <<>>
           /\ ~(\E e \in OperatorTable : e[1] = strtok)
           /\ HoldsKeyword(strtok)) =>
             /\ Result.kind = "VariableRef"
             /\ contextp'.cells[Result.vble].name = strtok
             /\ strtok \in Names(contextp')
             /\ GetValue(contextp', Result.vble) = Zero
       /\ strtok \in { <<"M", "Y", "_", "S", "C", "O", "R", "E", "_", "X">>,
                       <<"3", "L", "I", "G">> }
            => /\ Result.kind = "VariableRef"
               /\ Names(contextp') = Names(contextp) \cup {strtok}]_vars

\* "3LIG" has been classified: a VariableRef keyed by the whole word
C14_Witness ==
  /\ Len(out) >= 1
  /\ LastCall.op = "C"
  /\ seen[Len(seen)] = <<"3", "L", "I", "G">>
  /\ LastOut.kind = "VariableRef"
  /\ contextp.cells[LastOut.vble] = [name |-> <<"3", "L", "I", "G">>, value |-> Zero]

(* C15: constructing the iterator and calling Next() never change the       *)
(* Context, neither its names nor a value; only Current() writes to it, so  *)
(* a word read ahead or skipped by Next() with no Current() on it leaves no *)
(* entry in the Context.                                                    *)
C15_OnlyCurrentWrites ==
  /\ [][NextStep => (contextp' = contextp /\ log' = log)]_vars
  /\ [](/\ calls = <<>> => contextp = EmptyContext
        /\ NumCalls("C") = 0 => Names(contextp) \subseteq AssignedNames
        /\ \A i \in 1..Len(StreamWords) :
             (/\ StreamWords[i] \notin AssignedNames
              /\ \A j \in 1..Len(seen) : seen[j] # StreamWords[i])
               => StreamWords[i] \notin Names(contextp))

\* the literal "2" was skipped, the scoring name after it classified
C15_Witness ==
  /\ StreamWords = << <<"2">>, <<"S", "I", "T", "E">> >>
  /\ Ops(calls) = <<"N", "C">>
  /\ Names(contextp) = { <<"S", "I", "T", "E">> }

(* C16: when Current() fails, with EmptyToken or UnrecognizedToken, the     *)
(* Context, the buffered word, the stream position and the current token    *)
(* stored before are unchanged, and Current() called again with no Next()   *)
(* in between fails in the same way.                                        *)
C16_FailureChangesNothing ==
  [][/\ (CurrentStep /\ IsError(Result)) =>
          /\ contextp' = contextp
          /\ strtok' = strtok
          /\ filep' = filep
          /\ current' = current
          /\ log' = log
     /\ (/\ CurrentStep
         /\ Len(IterCalls) >= 1
         /\ IterCalls[Len(IterCalls)].op = "C"
         /\ IsError(LastOut)) => Result = LastOut]_vars

\* a literal classified, then the unreadable word after it twice
C16_Witness ==
  /\ Len(out) >= 3
  /\ Ops(calls) = <<"C", "N", "C", "C">>
  /\ current.kind = "VariableRef"
  /\ LastOut.kind = "UnrecognizedToken"
  /\ out[Len(out) - 1] = LastOut
  /\ Len(contextp.cells) = 1

-----------------------------------------------------------------------------
(* Vocabulary of the properties of the transform *)

\* this step is an Update() call
UpdateStep == updates' = updates + 1

\* the number of calls of a hook
Count(hs, h) == Cardinality({i \in DOMAIN hs : hs[i] = h})

(* C17: an Update() from a subject other than the workspace changes no      *)
(* cached model and calls no Setup hook; an Update() from the workspace     *)
(* calls SetupTransform exactly once, after every SetupReceptor,            *)
(* SetupLigand and SetupSolvent it calls, and calls SetupReceptor           *)
(* (SetupLigand) only when model 0 (model 1) of the workspace differs from  *)
(* the cached receptor (ligand).                                            *)
C17_UpdateHooks ==
  [][UpdateStep =>
       /\ subject' # "workspace" =>
            /\ hooks' = <<>>
            /\ m_spReceptor' = m_spReceptor
            /\ m_spLigand' = m_spLigand
            /\ m_solventList' = m_solventList
       /\ subject' = "workspace" =>
            /\ Count(hooks', "SetupTransform") = 1
            /\ hooks'[Len(hooks')] = "SetupTransform"
            /\ Count(hooks', "SetupReceptor") > 0 =>
                 (Len(wsModels) >= 1 /\ wsModels[1] # m_spReceptor)
            /\ Count(hooks', "SetupLigand") > 0 =>
                 (Len(wsModels) >= 2 /\ wsModels[2] # m_spLigand)]_vars

\* an Update() from the workspace that called all four hooks, after others
C17_Witness ==
  /\ updates >= 2
  /\ subject = "workspace"
  /\ hooks = <<"SetupReceptor", "SetupLigand", "SetupSolvent", "SetupTransform">>

(* C18: after every Update() from the workspace, the cached receptor is     *)
(* model 0 when the workspace has a model, the cached ligand is model 1     *)
(* when it has two, and the cached solvent list is the models from index 2  *)
(* on, empty when there are fewer than three.  Fails: the solvent list is   *)
(* replaced only when its length differs from the cached one's.             *)
C18_CachesFollowWorkSpace ==
  [][(UpdateStep /\ subject' = "workspace") =>
       /\ Len(wsModels') >= 1 => m_spReceptor' = wsModels'[1]
       /\ Len(wsModels') >= 2 => m_spLigand' = wsModels'[2]
       /\ m_solventList' = IF Len(wsModels') >= 3
                              THEN SubSeq(wsModels', 3, Len(wsModels'))
                              ELSE <<>>]_vars

(* C19: a lookup of a type a table does not hold returns 0 from             *)
(* ImplicitHydrogens and FormalCharge, which never throw, and throws        *)
(* RbtFileMissingParameter from AtomTypeString, AtomicNumber and            *)
(* HybridState, which return no default; no lookup changes a table.         *)
C19_UnknownTypes ==
  /\ [][tables' = tables]_vars
  /\ [](/\ ret.fn \in {"ImplicitHydrogens", "FormalCharge"} => ret.thrown = "none"
        /\ (ret.fn = "ImplicitHydrogens" /\ ret.key \notin DOMAIN m_implicitHydrogens)
             => ret.value = 0
        /\ (ret.fn = "FormalCharge" /\ ret.key \notin DOMAIN m_formalCharge)
             => ret.value = 0
        /\ (ret.fn = "AtomTypeString" /\ ret.key \notin DOMAIN m_atomTypes)
             => (ret.thrown = "RbtFileMissingParameter" /\ ret.value = "none")
        /\ (ret.fn = "AtomicNumber" /\ ret.key \notin DOMAIN m_atomicNumber)
             => (ret.thrown = "RbtFileMissingParameter" /\ ret.value = "none")
        /\ (ret.fn = "HybridState" /\ ret.key \notin DOMAIN m_hybridState)
             => (ret.thrown = "RbtFileMissingParameter" /\ ret.value = "none"))

\* "OC" has a formal charge and an atomic number, and no implicit hydrogens
C19_Witness ==
  /\ ret.fn = "ImplicitHydrogens"
  /\ ret.key = "OC"
  /\ ret.thrown = "none"
  /\ ret.value = 0
  /\ "OC" \in DOMAIN m_formalCharge
  /\ "OC" \in DOMAIN m_atomicNumber
  /\ "OC" \notin DOMAIN m_implicitHydrogens

====
